---- MODULE Spec2Model ----
(***************************************************************************)
(* State-machine model of src/app.py: a Streamlit application that keeps   *)
(* IT asset records in assets.csv (through pandas) and operator            *)
(* credentials in users.json.  One action is one run of main() for one     *)
(* operator interaction.                                                   *)
(*                                                                         *)
(* Python values are modelled as follows.                                  *)
(*   str            a TLA+ string                                          *)
(*   datetime.date  a day ordinal; day 0 is 2026-01-01 and the ordinals    *)
(*                  used stay inside 2026-2027 (two 365-day years)         *)
(*   dict           a sequence of [k, v] entries in insertion order        *)
(*   DataFrame      [columns |-> BOOLEAN, rows |-> sequence of rows]; a    *)
(*                  row is a function from the column names to cells,      *)
(*                  and a cell is a value with its type                    *)
(*   a file         a record with a "kind" and its parsed content          *)
(*                                                                         *)
(* The text conversions are written out as the library computes them.      *)
(* Each is also tabulated once over the texts the model uses (the ...Cache *)
(* definitions), because TLC interns every string it builds; a text        *)
(* outside a table is converted directly.                                  *)
(***************************************************************************)
EXTENDS Integers, Sequences, FiniteSets, TLC

VARIABLES
    assetsFile,   \* content of Config.ASSETS_FILE
    usersFile,    \* content of Config.USERS_FILE
    cache,        \* st.cache_data entry of load_assets()
    session,      \* st.session_state: logged_in, username
    out           \* what the last run showed to the operator

vars == <<assetsFile, usersFile, cache, session, out>>

---------------------------------------------------------------------------
(* Bounds of the model *)

MaxAssets == 2      \* rows the asset file may hold before registering stops
MaxViewRows == 3    \* rows of the frames the page functions are applied to

---------------------------------------------------------------------------
(* Config and the fixed texts of the program *)

SUPPORTED_CATEGORIES ==
    <<"Laptop", "Desktop", "Server", "Printer", "Monitor",
      "Network", "Peripheral", "Mobile", "Storage", "Other">>

SUPPORTED_STATUSES == <<"Available", "Assigned", "Repair", "Disposed", "Archived">>

Columns ==
    <<"Asset ID", "Asset Name", "Category", "Brand", "Model", "Serial No",
      "Status", "Assigned To", "Purchase Date", "Warranty Expiry", "Location",
      "Cost", "Notes", "Created Date", "Last Updated">>

ColumnSet == {Columns[i] : i \in 1..Len(Columns)}

date_cols == {"Purchase Date", "Warranty Expiry", "Created Date", "Last Updated"}

Today == 307                \* date.today(): 2026-11-04 as a day ordinal
ExpiryWindowDays == 90      \* timedelta(days=90)

---------------------------------------------------------------------------
(* What the operator may enter *)

Usernames == {"admin", "bob", ""}
Passwords == {"Admin@2024", "admin@2024", ""}

AssetIdInputs == {"", " L1 ", "7", "007"}
NameInputs == {"Dell"}
BrandInputs == {"HP"}
PurchaseInputs == {Today - 2, Today - 1}
WarrantyInputs == {Today - 2, Today - 1, Today + 89}
CostInputs == {0}

FormsOver(ids, names, statuses, purchases, warranties) ==
    [asset_id : ids, name : names, category : {SUPPORTED_CATEGORIES[1]},
     brand : BrandInputs, model : {""}, serial : {""}, status : statuses,
     assignee : {""}, location : {""}, cost : CostInputs,
     purchase : purchases, warranty : warranties, notes : {""}]

Forms ==
    FormsOver(AssetIdInputs, NameInputs, {SUPPORTED_STATUSES[1]},
              PurchaseInputs, WarrantyInputs)

\* the forms behind the frames the pages are applied to; the asset id is
\* set by the row's position
PageNameInputs == {"Dell", "Lenovo"}
PageStatusInputs == {SUPPORTED_STATUSES[1], SUPPORTED_STATUSES[2]}

SearchInputs == {"", "dell", "DELL LAP", "delllaptop", "ssi"}
StatusFilters == {"All", SUPPORTED_STATUSES[1], SUPPORTED_STATUSES[2], SUPPORTED_STATUSES[3]}

---------------------------------------------------------------------------
(* Python text and number conversions *)

Digits == "0123456789"

DigitText(d) == SubSeq(Digits, d + 1, d + 1)

DigitSet == {DigitText(d) : d \in 0..9}

DigitValues == [c \in DigitSet |-> CHOOSE d \in 0..9 : DigitText(d) = c]

\* str(n) for an int n >= 0
RECURSIVE IntTextOf(_)
IntTextOf(n) ==
    IF n < 10 THEN DigitText(n) ELSE IntTextOf(n \div 10) \o DigitText(n % 10)

\* whether the CSV parser reads the text as an integer
IsIntTextOf(s) == Len(s) > 0 /\ \A i \in 1..Len(s) : SubSeq(s, i, i) \in DigitSet

\* int(s) for a text of digits: leading zeros are dropped
RECURSIVE IntOfText(_)
IntOfText(s) ==
    IF Len(s) = 0 THEN 0
    ELSE 10 * IntOfText(SubSeq(s, 1, Len(s) - 1)) + DigitValues[SubSeq(s, Len(s), Len(s))]

\* repr of a float with an integral value, as to_csv and astype(str) write it
FloatTextOf(x) == IntTextOf(x) \o ".0"

\* whether the CSV parser reads the text as such a float
IsFloatTextOf(s) ==
    /\ Len(s) > 2
    /\ SubSeq(s, Len(s) - 1, Len(s)) = ".0"
    /\ IsIntTextOf(SubSeq(s, 1, Len(s) - 2))

\* the float the CSV parser reads from it
FloatOfText(s) == IntOfText(SubSeq(s, 1, Len(s) - 2))

Pad2(n) == DigitText(n \div 10) \o DigitText(n % 10)

DaysBeforeMonth == <<0, 31, 59, 90, 120, 151, 181, 212, 243, 273, 304, 334>>

MonthOfYearDay(doy) ==
    CHOOSE m \in 1..12 :
        /\ DaysBeforeMonth[m] <= doy
        /\ (m = 12 \/ doy < DaysBeforeMonth[m + 1])

\* '%Y-%m-%d' of a day ordinal
FormatDate(day) ==
    LET year == 2026 + day \div 365
        doy == day % 365
        month == MonthOfYearDay(doy)
    IN  Pad2(year \div 100) \o Pad2(year % 100) \o "-" \o Pad2(month)
            \o "-" \o Pad2(doy - DaysBeforeMonth[month] + 1)

\* the day ordinal of a YYYY-MM-DD text
ParseDate(text) ==
    LET year == IntOfText(SubSeq(text, 1, 4))
        month == IntOfText(SubSeq(text, 6, 7))
        dom == IntOfText(SubSeq(text, 9, 10))
    IN  (year - 2026) * 365 + DaysBeforeMonth[month] + dom - 1

\* str.strip()
RECURSIVE lstrip(_)
lstrip(s) == IF Len(s) > 0 /\ SubSeq(s, 1, 1) = " " THEN lstrip(SubSeq(s, 2, Len(s))) ELSE s

RECURSIVE rstrip(_)
rstrip(s) ==
    IF Len(s) > 0 /\ SubSeq(s, Len(s), Len(s)) = " "
    THEN rstrip(SubSeq(s, 1, Len(s) - 1)) ELSE s

StripOf(s) == lstrip(rstrip(s))

UpperCase == "ABCDEFGHIJKLMNOPQRSTUVWXYZ"
LowerCase == "abcdefghijklmnopqrstuvwxyz"

UpperSet == {SubSeq(UpperCase, i, i) : i \in 1..Len(UpperCase)}

LowerOfChar ==
    [c \in UpperSet |->
        LET i == CHOOSE j \in 1..Len(UpperCase) : SubSeq(UpperCase, j, j) = c
        IN  SubSeq(LowerCase, i, i)]

\* str.lower()
RECURSIVE LowerOf(_)
LowerOf(s) ==
    IF Len(s) = 0 THEN ""
    ELSE (IF SubSeq(s, 1, 1) \in UpperSet THEN LowerOfChar[SubSeq(s, 1, 1)] ELSE SubSeq(s, 1, 1))
             \o LowerOf(SubSeq(s, 2, Len(s)))

\* Python's  needle in hay  for two strings
ContainsOf(hay, needle) ==
    \E i \in 1..(Len(hay) - Len(needle) + 1) : SubSeq(hay, i, i + Len(needle) - 1) = needle

\* str.cat(sep=sep) over a sequence of strings
RECURSIVE str_cat(_, _)
str_cat(strs, sep) ==
    IF Len(strs) = 0 THEN ""
    ELSE IF Len(strs) = 1 THEN strs[1]
    ELSE strs[1] \o sep \o str_cat(Tail(strs), sep)

---------------------------------------------------------------------------
(* The conversions tabulated over the texts, days and numbers in use *)

Days == 0..729

TypedTexts ==
    AssetIdInputs \cup NameInputs \cup BrandInputs \cup PageNameInputs
        \cup {""} \cup {"L" \o IntTextOf(i) : i \in 1..(MaxViewRows + 1)}

StripCache == [s \in TypedTexts |-> StripOf(s)]

strip(s) == IF s \in TypedTexts THEN StripCache[s] ELSE StripOf(s)

DateTextCache == [day \in Days |-> FormatDate(day)]

\* dt.strftime('%Y-%m-%d')
strftime(day) == IF day \in Days THEN DateTextCache[day] ELSE FormatDate(day)

DateTexts == {DateTextCache[day] : day \in Days}

DateCache == [text \in DateTexts |-> ParseDate(text)]

\* pd.to_datetime of a date text
to_datetime(text) == IF text \in DateTexts THEN DateCache[text] ELSE ParseDate(text)

EnteredTexts ==
    {StripCache[s] : s \in TypedTexts}
        \cup {SUPPORTED_CATEGORIES[i] : i \in 1..Len(SUPPORTED_CATEGORIES)}
        \cup {SUPPORTED_STATUSES[i] : i \in 1..Len(SUPPORTED_STATUSES)}
        \cup {FloatTextOf(x) : x \in CostInputs}

\* with the texts a number is written back as
StoredTexts ==
    EnteredTexts \cup {IntTextOf(IntOfText(s)) : s \in {e \in EnteredTexts : IsIntTextOf(e)}}

IntTexts == {s \in StoredTexts : IsIntTextOf(s)}
FloatTexts == {s \in StoredTexts : IsFloatTextOf(s)}

KnownTexts == StoredTexts \cup DateTexts

IsIntText(s) == IF s \in KnownTexts THEN s \in IntTexts ELSE IsIntTextOf(s)

IsFloatText(s) == IF s \in KnownTexts THEN s \in FloatTexts ELSE IsFloatTextOf(s)

IntCache == [s \in IntTexts |-> IntOfText(s)]

IntOf(s) == IF s \in IntTexts THEN IntCache[s] ELSE IntOfText(s)

FloatCache == [s \in FloatTexts |-> FloatOfText(s)]

FloatOf(s) == IF s \in FloatTexts THEN FloatCache[s] ELSE FloatOfText(s)

IntsRead == {IntCache[s] : s \in IntTexts}

IntTextCache == [n \in IntsRead |-> IntTextOf(n)]

IntText(n) == IF n \in IntsRead THEN IntTextCache[n] ELSE IntTextOf(n)

FloatTextCache == [x \in CostInputs |-> FloatTextOf(x)]

FloatText(x) == IF x \in CostInputs THEN FloatTextCache[x] ELSE FloatTextOf(x)

LowerTexts == KnownTexts \cup SearchInputs

LowerCache == [s \in LowerTexts |-> LowerOf(s)]

lower(s) == IF s \in LowerTexts THEN LowerCache[s] ELSE LowerOf(s)

---------------------------------------------------------------------------
(* Cells of a DataFrame: a Python value with its type *)

StrCell(s) == [t |-> "str", v |-> s]
IntCell(n) == [t |-> "int", v |-> n]
FloatCell(x) == [t |-> "float", v |-> x]
DateCell(d) == [t |-> "date", v |-> d]

\* Python's == on two cells: an int and a str are never equal
\* an empty field read back by pd.read_csv
NaN == [t |-> "nan", v |-> 0]

\* == between two cells: values of different types are unequal, NaN equals
\* nothing
PyEq(a, b) == a.t # "nan" /\ a.t = b.t /\ a.v = b.v

\* the text to_csv and astype(str) produce for a cell
CellText(cell) ==
    CASE cell.t = "str" -> cell.v
      [] cell.t = "int" -> IntText(cell.v)
      [] cell.t = "float" -> FloatText(cell.v)
      [] cell.t = "date" -> strftime(cell.v)

\* pd.DataFrame(): no columns, no rows
DataFrame == [columns |-> FALSE, rows |-> <<>>]

---------------------------------------------------------------------------
(* The asset file and pandas' CSV reader and writer *)

AbsentFile == [kind |-> "absent", header |-> FALSE, rows |-> <<>>]
EmptyFile == [kind |-> "csv", header |-> FALSE, rows |-> <<>>]
HeaderOnlyFile == [kind |-> "csv", header |-> TRUE, rows |-> <<>>]
UnparseableFile == [kind |-> "unparseable", header |-> FALSE, rows |-> <<>>]

\* os.path.getsize(...) == 0
IsZeroBytes(file) == file.kind = "csv" /\ ~file.header /\ Len(file.rows) = 0

TextRows(rows) == [i \in 1..Len(rows) |-> [c \in ColumnSet |-> CellText(rows[i][c])]]

\* DataFrame.to_csv(path, index=False): the file is opened for writing, which
\* truncates it, then the header line and one line per row are written.  A
\* frame without columns writes a lone line break, which read_csv rejects.
to_csv(df) ==
    IF ~df.columns THEN UnparseableFile
    ELSE [kind |-> "csv", header |-> TRUE, rows |-> TextRows(df.rows)]

\* read_csv's type inference works on whole columns: a column of integers
\* becomes int64, one of numbers float64, anything else keeps its texts.
\* (Columns mixing numbers and blanks are outside the inputs used here.)
ColumnKind(rows, c) ==
    IF Len(rows) > 0 /\ \A i \in 1..Len(rows) : IsIntText(rows[i][c]) THEN "int"
    ELSE IF Len(rows) > 0 /\ \A i \in 1..Len(rows) :
                rows[i][c] = "" \/ IsIntText(rows[i][c]) \/ IsFloatText(rows[i][c])
    THEN "float"
    ELSE "str"

InferCell(kind, text) ==
    IF text = "" THEN NaN
    ELSE IF kind = "int" THEN IntCell(IntOf(text))
    ELSE IF kind = "float"
         THEN FloatCell(IF IsIntText(text) THEN IntOf(text) ELSE FloatOf(text))
    ELSE StrCell(text)

ParseRows(rows, kinds) ==
    [i \in 1..Len(rows) |-> [c \in ColumnSet |-> InferCell(kinds[c], rows[i][c])]]

\* pd.read_csv raises on a file it cannot parse and on a file of zero bytes
read_csv_raises(file) == file.kind # "csv" \/ ~file.header

read_csv(file) ==
    [columns |-> TRUE,
     rows |-> ParseRows(file.rows, [c \in ColumnSet |-> ColumnKind(file.rows, c)])]

---------------------------------------------------------------------------
(* init_storage, load_assets, save_assets *)

\* Path.touch(exist_ok=True), then the schema is written into an empty file
init_storage(file) ==
    IF file.kind = "absent" \/ IsZeroBytes(file) THEN HeaderOnlyFile ELSE file

\* lines 87-93: the date columns through pd.to_datetime, fillna(""), Cost as
\* float64
CoerceCell(c, cell) ==
    IF cell.t = "nan" THEN StrCell("")
    ELSE IF c \in date_cols THEN DateCell(to_datetime(CellText(cell)))
    ELSE IF c = "Cost" /\ cell.t = "int" THEN FloatCell(cell.v)
    ELSE cell

CoerceRows(rows) ==
    [i \in 1..Len(rows) |-> [c \in ColumnSet |-> CoerceCell(c, rows[i][c])]]

\* the body of load_assets: the coerced frame, or an empty frame when
\* reading raises
load_assets_body(file) ==
    IF read_csv_raises(file) THEN DataFrame
    ELSE [columns |-> TRUE, rows |-> CoerceRows(read_csv(file).rows)]

NoCache == [valid |-> FALSE, df |-> DataFrame]

\* @st.cache_data(ttl=600): the stored frame is returned while the entry lives
load_assets(c, file) == IF c.valid THEN c.df ELSE load_assets_body(file)

\* the cache entry after a call of load_assets
cache_after_load(c, file) == [valid |-> TRUE, df |-> load_assets(c, file)]

\* a write that leaves the cache entry in place
cache_data_kept(c) == c

\* st.cache_data.clear(), lines 112 and 408
cache_data_clear(c) == NoCache

FormatDateCols(rows) ==
    [i \in 1..Len(rows) |->
        [c \in ColumnSet |->
            IF c \in date_cols THEN StrCell(strftime(rows[i][c].v)) ELSE rows[i][c]]]

\* the file save_assets leaves: the date columns formatted, then to_csv
save_assets(df) == to_csv([columns |-> df.columns, rows |-> FormatDateCols(df.rows)])

\* the file a write leaves when it stops after `written` lines (the header
\* line counts as one): opening truncated it, the rest never arrived
partial_file(file, written) ==
    IF written = 0 THEN EmptyFile
    ELSE [kind |-> "csv", header |-> TRUE, rows |-> SubSeq(file.rows, 1, written - 1)]

---------------------------------------------------------------------------
(* Python dicts, kept as sequences of entries in insertion order *)

DictKeys(d) == {d[i].k : i \in 1..Len(d)}

DictGet(d, key) == d[CHOOSE i \in 1..Len(d) : d[i].k = key].v

\* d[key] = value: an existing key keeps its place
DictSet(d, key, value) ==
    IF key \in DictKeys(d)
    THEN [i \in 1..Len(d) |-> IF d[i].k = key THEN [k |-> key, v |-> value] ELSE d[i]]
    ELSE Append(d, [k |-> key, v |-> value])

\* {k: v for k, v in d.items() if k != key}
DictWithout(d, key) == SelectSeq(d, LAMBDA e : e.k # key)

\* list(d.values())
DictValues(d) == [i \in 1..Len(d) |-> d[i].v]

---------------------------------------------------------------------------
(* The credential store *)

\* hashlib.sha256(f"itsm_salt_{password}".encode()).hexdigest(): the digest
\* is kept symbolic, one distinct text per salted input
HashOf(password) == "sha256(" \o "itsm_salt_" \o password \o ")"

HashCache == [p \in Passwords |-> HashOf(p)]

hash_password(password) == IF password \in Passwords THEN HashCache[password] ELSE HashOf(password)

AbsentUsersFile == [kind |-> "absent", items |-> <<>>]

\* json values of the users file: a string, or an object with the two keys
JsonStr(s) == [t |-> "str", v |-> s]
JsonUser(u, h) == [t |-> "obj", username |-> u, password_hash |-> h]

default_users == << [k |-> "admin", v |-> hash_password("Admin@2024")] >>

RECURSIVE UsersFromItems(_)
UsersFromItems(items) ==
    IF Len(items) = 0 THEN <<>>
    ELSE LET last == items[Len(items)]
         IN  DictSet(UsersFromItems(SubSeq(items, 1, Len(items) - 1)),
                     last.username, last.password_hash)

\* load_users: the file's mapping, or the default one when the file is
\* missing or reading it raises (a cut-off document, an item that is no
\* object: user['username'] on a str raises TypeError)
load_users(file) ==
    IF /\ file.kind = "json"
       /\ \A i \in 1..Len(file.items) : file.items[i].t = "obj"
    THEN UsersFromItems(file.items)
    ELSE default_users

\* save_users: json.dump(list(users.values()), f) writes the values only
save_users(users) ==
    [kind |-> "json", items |-> [i \in 1..Len(users) |-> JsonStr(DictValues(users)[i])]]

\* a check of the password alone, against any stored hash
authenticate_by_hash(users, username, password) ==
    \E i \in 1..Len(users) : users[i].v = hash_password(password)

\* line 157: username in users and users[username] == hash_password(password)
authenticate(users, username, password) ==
    /\ username \in DictKeys(users)
    /\ DictGet(users, username) = hash_password(password)

---------------------------------------------------------------------------
(* render_add_asset: validation and the new row *)

\* line 280: not all([asset_id.strip(), name.strip(), brand.strip(), category])
required_missing(form) ==
    \/ strip(form.asset_id) = ""
    \/ strip(form.name) = ""
    \/ strip(form.brand) = ""
    \/ form.category = ""

\* line 282: asset_id.strip() in df["Asset ID"].values, numpy's membership
\* test: the stripped str is compared with every cell of the column
asset_id_exists(df, asset_id) ==
    \E i \in 1..Len(df.rows) : PyEq(df.rows[i]["Asset ID"], StrCell(strip(asset_id)))

\* the comparison that lets equal dates through
warranty_before_purchase(purchase, warranty) == warranty < purchase

\* line 284: warranty <= purchase
warranty_not_after_purchase(purchase, warranty) == warranty <= purchase

validation_errors(df, form) ==
    (IF required_missing(form) THEN <<"Required fields missing">> ELSE <<>>)
    \o (IF asset_id_exists(df, form.asset_id)
        THEN <<"Asset ID already exists">> ELSE <<>>)
    \o (IF warranty_not_after_purchase(form.purchase, form.warranty)
        THEN <<"Warranty must exceed purchase date">> ELSE <<>>)

\* lines 291-307: the one-row frame built from the form
new_asset(form) ==
    [c \in ColumnSet |->
        CASE c = "Asset ID" -> StrCell(strip(form.asset_id))
          [] c = "Asset Name" -> StrCell(strip(form.name))
          [] c = "Category" -> StrCell(form.category)
          [] c = "Brand" -> StrCell(strip(form.brand))
          [] c = "Model" -> StrCell(strip(form.model))
          [] c = "Serial No" -> StrCell(strip(form.serial))
          [] c = "Status" -> StrCell(form.status)
          [] c = "Assigned To" -> StrCell(strip(form.assignee))
          [] c = "Purchase Date" -> DateCell(form.purchase)
          [] c = "Warranty Expiry" -> DateCell(form.warranty)
          [] c = "Location" -> StrCell(strip(form.location))
          [] c = "Cost" -> FloatCell(form.cost)
          [] c = "Notes" -> StrCell(strip(form.notes))
          [] c = "Created Date" -> DateCell(Today)
          [] c = "Last Updated" -> DateCell(Today)]

\* line 309: pd.concat([df, new_asset], ignore_index=True)
concat(df, row) == [columns |-> TRUE, rows |-> Append(df.rows, row)]

---------------------------------------------------------------------------
(* The frames the page functions are applied to: every file that up to     *)
(* MaxViewRows successful registrations leave, read back by load_assets    *)

PageForms ==
    FormsOver({""}, PageNameInputs, PageStatusInputs, {Today - 2}, {Today + 89})

PageFormSeqs == UNION {[1..n -> PageForms] : n \in 0..MaxViewRows}

WithIds(forms) ==
    [i \in 1..Len(forms) |-> [forms[i] EXCEPT !.asset_id = "L" \o IntTextOf(i)]]

RECURSIVE StoredAfter(_)
StoredAfter(forms) ==
    IF Len(forms) = 0 THEN HeaderOnlyFile
    ELSE save_assets(concat(load_assets_body(StoredAfter(SubSeq(forms, 1, Len(forms) - 1))),
                            new_asset(forms[Len(forms)])))

PageFiles == {StoredAfter(WithIds(forms)) : forms \in PageFormSeqs}

PageRows ==
    UNION {{load_assets_body(file).rows[i] : i \in 1..Len(file.rows)} : file \in PageFiles}

---------------------------------------------------------------------------
(* render_manage_assets and render_dashboard: what they compute from df *)

\* row.str.lower().str.cat(sep=' ') of a row of df.astype(str)
RowTextOf(row) ==
    str_cat([j \in 1..Len(Columns) |-> lower(CellText(row[Columns[j]]))], " ")

RowTextCache == [row \in PageRows |-> RowTextOf(row)]

row_text(row) == IF row \in PageRows THEN RowTextCache[row] ELSE RowTextOf(row)

ContainsArgs == {RowTextCache[row] : row \in PageRows} \X {LowerCache[q] : q \in SearchInputs}

ContainsCache == [p \in ContainsArgs |-> ContainsOf(p[1], p[2])]

StrContains(hay, needle) ==
    IF <<hay, needle>> \in ContainsArgs THEN ContainsCache[<<hay, needle>>]
    ELSE ContainsOf(hay, needle)

\* the search text looked for as typed
search_matches_as_typed(row, search) == StrContains(row_text(row), search)

\* line 326: search.lower() in <the row's text>
search_matches(row, search) == StrContains(row_text(row), lower(search))

\* line 328: filtered_df["Status"] == status_filter
status_matches(row, status_filter) == PyEq(row["Status"], StrCell(status_filter))

\* a frame without columns has no "Status" to select on
filter_raises(df, search, status_filter) == ~df.columns /\ status_filter # "All"

\* lines 324-328
filter_assets(rows, search, status_filter) ==
    SelectSeq(IF search # ""
              THEN SelectSeq(rows, LAMBDA row : search_matches(row, search))
              ELSE rows,
              LAMBDA row : status_filter = "All" \/ status_matches(row, status_filter))

\* len(df[df["Status"] == status])
status_count(df, status) ==
    Cardinality({i \in 1..Len(df.rows) : PyEq(df.rows[i]["Status"], StrCell(status))})

\* line 218: pd.to_datetime(date.today() + timedelta(days=90))
threshold_date == Today + ExpiryWindowDays

\* line 219: len(df[df["Warranty Expiry"] < threshold_date].dropna(...))
expiring(df) ==
    Cardinality({i \in 1..Len(df.rows) : df.rows[i]["Warranty Expiry"].v < threshold_date})

---------------------------------------------------------------------------
(* The state before the first run: neither file exists, nobody is logged in *)

NoSession == [logged_in |-> FALSE, username |-> ""]

Init ==
    /\ assetsFile = AbsentFile
    /\ usersFile = AbsentUsersFile
    /\ cache = NoCache
    /\ session = NoSession
    /\ out = [op |-> "start"]

\* a logged-in session over a stored file, for the page functions
InitPages ==
    /\ assetsFile \in PageFiles
    /\ usersFile = AbsentUsersFile
    /\ cache = NoCache
    /\ session = [logged_in |-> TRUE, username |-> "admin"]
    /\ out = [op |-> "start"]

---------------------------------------------------------------------------
(* One action per run of main().  Every run starts with init_storage(),    *)
(* and every run of a logged-in session then calls load_assets().          *)

\* the login form is submitted with a name and a password; a successful
\* login ends in st.rerun(), and that run loads the assets
render_login_page(username, password) ==
    \E ok \in {authenticate(load_users(usersFile), username, password)} :
        /\ ~session.logged_in
        /\ assetsFile' = init_storage(assetsFile)
        /\ session' = IF ok THEN [logged_in |-> TRUE, username |-> username] ELSE session
        /\ cache' = IF ok THEN cache_after_load(cache, init_storage(assetsFile)) ELSE cache
        /\ out' = [op |-> "login", username |-> username, password |-> password, ok |-> ok]
        /\ UNCHANGED usersFile

\* the sidebar's Logout button: the session state is emptied
render_logout ==
    /\ session.logged_in
    /\ assetsFile' = init_storage(assetsFile)
    /\ cache' = cache_after_load(cache, init_storage(assetsFile))
    /\ session' = NoSession
    /\ out' = [op |-> "logout"]
    /\ UNCHANGED usersFile

AddAssetShown(form, result, errors) ==
    [op |-> "add_asset", purchase |-> form.purchase, warranty |-> form.warranty,
     result |-> result, errors |-> errors]

\* the Add Asset page with the form submitted
render_add_asset(form) ==
    \E file1 \in {init_storage(assetsFile)} :
    \E df \in {load_assets(cache, file1)} :
    \E errors \in {IF df.columns THEN validation_errors(df, form) ELSE <<>>} :
        /\ session.logged_in
        /\ UNCHANGED <<usersFile, session>>
        /\ IF ~df.columns
           THEN \* df["Asset ID"] raises KeyError and nothing catches it
                /\ assetsFile' = file1
                /\ cache' = [valid |-> TRUE, df |-> df]
                /\ out' = AddAssetShown(form, "KeyError", <<>>)
           ELSE IF errors # <<>>
           THEN /\ assetsFile' = file1
                /\ cache' = [valid |-> TRUE, df |-> df]
                /\ out' = AddAssetShown(form, "rejected", errors)
           ELSE /\ Len(df.rows) < MaxAssets
                /\ assetsFile' = save_assets(concat(df, new_asset(form)))
                /\ cache' = cache_data_clear([valid |-> TRUE, df |-> df])
                /\ out' = AddAssetShown(form, "saved", <<>>)

\* the Dashboard page
render_dashboard ==
    \E file1 \in {init_storage(assetsFile)} :
    \E df \in {load_assets(cache, file1)} :
        /\ session.logged_in
        /\ assetsFile' = file1
        /\ cache' = [valid |-> TRUE, df |-> df]
        /\ out' = IF Len(df.rows) = 0
                  THEN [op |-> "dashboard", empty |-> TRUE]
                  ELSE [op |-> "dashboard", empty |-> FALSE,
                        total |-> Len(df.rows),
                        assigned |-> status_count(df, "Assigned"),
                        available |-> status_count(df, "Available"),
                        repair |-> status_count(df, "Repair"),
                        expiring |-> expiring(df)]
        /\ UNCHANGED <<usersFile, session>>

\* the Manage page with a search text and a status filter
render_manage_assets(search, status_filter) ==
    \E file1 \in {init_storage(assetsFile)} :
    \E df \in {load_assets(cache, file1)} :
        /\ session.logged_in
        /\ assetsFile' = file1
        /\ cache' = [valid |-> TRUE, df |-> df]
        /\ out' = IF filter_raises(df, search, status_filter)
                  THEN [op |-> "manage", search |-> search, status_filter |-> status_filter,
                        result |-> "KeyError", rows |-> <<>>]
                  ELSE [op |-> "manage", search |-> search, status_filter |-> status_filter,
                        result |-> "shown",
                        rows |-> filter_assets(df.rows, search, status_filter)]
        /\ UNCHANGED <<usersFile, session>>

\* the Reports page: the table and the CSV offered for download
render_reports ==
    \E file1 \in {init_storage(assetsFile)} :
    \E df \in {load_assets(cache, file1)} :
        /\ session.logged_in
        /\ assetsFile' = file1
        /\ cache' = [valid |-> TRUE, df |-> df]
        /\ out' = [op |-> "reports", csv |-> to_csv(df)]
        /\ UNCHANGED <<usersFile, session>>

\* Settings, tab 1: the Remove button of a listed user; ends in st.rerun()
remove_user(username) ==
    \E file1 \in {init_storage(assetsFile)} :
    \E users \in {load_users(usersFile)} :
        /\ session.logged_in
        /\ username \in DictKeys(users)
        /\ assetsFile' = file1
        /\ cache' = cache_after_load(cache, file1)
        /\ usersFile' = save_users(DictWithout(users, username))
        /\ out' = [op |-> "remove_user", username |-> username,
                   users |-> DictWithout(users, username)]
        /\ UNCHANGED session

\* Settings, tab 1: the Create User form
add_user(new_username, new_password) ==
    \E file1 \in {init_storage(assetsFile)} :
    \E users \in {load_users(usersFile)} :
    \E created \in {new_username # "" /\ new_password # ""
                        /\ new_username \notin DictKeys(users)} :
    \E new_users \in {DictSet(users, new_username, hash_password(new_password))} :
        /\ session.logged_in
        /\ assetsFile' = file1
        /\ cache' = cache_after_load(cache, file1)
        /\ usersFile' = IF created THEN save_users(new_users) ELSE usersFile
        /\ out' = [op |-> "add_user", username |-> new_username, password |-> new_password,
                   created |-> created, users |-> IF created THEN new_users ELSE users]
        /\ UNCHANGED session

\* Settings, tab 2: the Clear All Assets button and, inside its branch, the
\* CONFIRM button; both values are inputs of the run.  Clearing ends in
\* st.rerun(), and that run loads the assets again.
clear_all_assets(clear_clicked, confirm_clicked) ==
    \E file1 \in {init_storage(assetsFile)} :
    \E df \in {load_assets(cache, file1)} :
    \E cleared \in {init_storage(to_csv([columns |-> df.columns, rows |-> <<>>]))} :
        /\ session.logged_in
        /\ IF clear_clicked /\ confirm_clicked
           THEN /\ assetsFile' = cleared
                /\ cache' = cache_after_load(cache_data_clear([valid |-> TRUE, df |-> df]),
                                             cleared)
           ELSE /\ assetsFile' = file1
                /\ cache' = [valid |-> TRUE, df |-> df]
        /\ out' = [op |-> "clear_all", cleared |-> clear_clicked /\ confirm_clicked]
        /\ UNCHANGED <<usersFile, session>>

\* ttl=600 of load_assets' cache entry runs out
cache_expires ==
    /\ cache.valid
    /\ cache' = NoCache
    /\ UNCHANGED <<assetsFile, usersFile, session, out>>

---------------------------------------------------------------------------
(* Faults of the environment *)

\* the asset file is damaged from outside: pandas can no longer parse it
corrupt_assets_file ==
    /\ assetsFile.kind = "csv"
    /\ assetsFile' = UnparseableFile
    /\ UNCHANGED <<usersFile, cache, session, out>>

\* a valid form is submitted and to_csv stops after `written` lines: on an
\* I/O error the except branch of save_assets reports it (the cache is not
\* cleared); on a crash the process, its cache and its session are gone
add_asset_interrupted(form, written, crashed) ==
    \E file1 \in {init_storage(assetsFile)} :
    \E df \in {load_assets(cache, file1)} :
    \E intended \in {IF df.columns THEN save_assets(concat(df, new_asset(form)))
                     ELSE UnparseableFile} :
        /\ session.logged_in
        /\ df.columns
        /\ validation_errors(df, form) = <<>>
        /\ Len(df.rows) < MaxAssets
        /\ written \in 0..Len(intended.rows)
        /\ assetsFile' = partial_file(intended, written)
        /\ cache' = IF crashed THEN NoCache ELSE [valid |-> TRUE, df |-> df]
        /\ session' = IF crashed THEN NoSession ELSE session
        /\ out' = [op |-> "add_asset", purchase |-> form.purchase,
                   warranty |-> form.warranty,
                   result |-> IF crashed THEN "crashed" ELSE "save_failed",
                   errors |-> <<>>, before |-> file1, intended |-> intended]
        /\ UNCHANGED usersFile

---------------------------------------------------------------------------
(* Specifications *)

\* the runs that use the record store
Next ==
    \/ \E u \in Usernames, p \in Passwords : render_login_page(u, p)
    \/ render_logout
    \/ \E form \in Forms : render_add_asset(form)
    \/ render_dashboard
    \/ render_reports
    \/ \E a \in BOOLEAN, b \in BOOLEAN : clear_all_assets(a, b)
    \/ cache_expires

Spec == Init /\ [][Next]_vars

\* the runs that use the credential store
NextUsers ==
    \/ \E u \in Usernames, p \in Passwords : render_login_page(u, p)
    \/ render_logout
    \/ \E u \in Usernames : remove_user(u)
    \/ \E u \in Usernames, p \in Passwords : add_user(u, p)

SpecUsers == Init /\ [][NextUsers]_vars

\* the pages applied to stored frames
NextPages ==
    \/ \E q \in SearchInputs, f \in StatusFilters : render_manage_assets(q, f)
    \/ render_dashboard
    \/ render_reports

SpecPages == InitPages /\ [][NextPages]_vars

\* the record store's runs with a damaged file and interrupted writes
FaultForms == FormsOver({"L1", "7"}, {"Dell"}, {"Available"}, {Today - 2}, {Today + 89})

FaultFilters == {"All", SUPPORTED_STATUSES[2]}

NextFault ==
    \/ \E u \in Usernames, p \in Passwords : render_login_page(u, p)
    \/ render_logout
    \/ \E form \in FaultForms : render_add_asset(form)
    \/ \E f \in FaultFilters : render_manage_assets("", f)
    \/ render_dashboard
    \/ cache_expires
    \/ corrupt_assets_file
    \/ \E form \in FaultForms, written \in 0..MaxAssets, crashed \in BOOLEAN :
           add_asset_interrupted(form, written, crashed)

SpecFault == Init /\ [][NextFault]_vars

---------------------------------------------------------------------------
(* Properties of the record store *)

StoredRows == IF assetsFile.kind = "csv" THEN assetsFile.rows ELSE <<>>

StoredFrame == load_assets_body(assetsFile)

\* C1: every stored record has a non-empty asset id and no two stored
\* records share an asset id
AssetIdsUnique ==
    \A i \in 1..Len(StoredRows) :
        /\ StoredRows[i]["Asset ID"] # ""
        /\ \A j \in 1..Len(StoredRows) :
               i # j => StoredRows[i]["Asset ID"] # StoredRows[j]["Asset ID"]

\* C2: a form whose warranty date is not after its purchase date, equal
\* dates included, is rejected, and every stored record has its warranty
\* date after its purchase date
WarrantyAfterPurchase ==
    /\ \A i \in 1..Len(StoredFrame.rows) :
           StoredFrame.rows[i]["Warranty Expiry"].v > StoredFrame.rows[i]["Purchase Date"].v
    /\ (out.op = "add_asset" /\ out.warranty <= out.purchase) => out.result = "rejected"

\* a form with equal dates was submitted and rejected while a record is stored
EqualDatesRejected ==
    /\ out.op = "add_asset"
    /\ out.warranty = out.purchase
    /\ out.result = "rejected"
    /\ Len(StoredRows) >= 1

\* C3: when a save is interrupted by an error or a crash, the asset file
\* holds the complete previous content or the complete new content
SaveIsAtomic ==
    (out.op = "add_asset" /\ out.result \in {"save_failed", "crashed"})
        => assetsFile \in {out.before, out.intended}

\* C4: the cached frame is never older than the asset file: whenever the
\* cache entry is valid it is the frame load_assets reads from the file as
\* it stands, and a successful save leaves no valid entry behind
CacheNeverStale ==
    /\ cache.valid => cache.df = StoredFrame
    /\ (out.op = "add_asset" /\ out.result = "saved") => ~cache.valid

\* a record was written and a later load_assets returned it from the file
LoadedAfterWrite ==
    /\ cache.valid
    /\ Len(cache.df.rows) >= 1
    /\ cache.df = StoredFrame

\* C5: after a user is added or removed, load_users returns exactly the
\* mapping that was saved
UsersRoundTrip ==
    (out.op = "remove_user" \/ (out.op = "add_user" /\ out.created))
        => load_users(usersFile) = out.users

\* C6: a login succeeds exactly when the name is a key of the loaded mapping
\* and the hash of the password is the hash stored for it; with no users
\* file it succeeds exactly for admin with Admin@2024
AuthenticateIffVerifierMatches ==
    out.op = "login" =>
        /\ out.ok <=> \E i \in 1..Len(load_users(usersFile)) :
                          /\ load_users(usersFile)[i].k = out.username
                          /\ load_users(usersFile)[i].v = HashOf(out.password)
        /\ usersFile.kind = "absent"
               => (out.ok <=> (out.username = "admin" /\ out.password = "Admin@2024"))

\* the bootstrap administrator logged in while no users file exists
BootstrapAdminLoggedIn ==
    /\ out.op = "login"
    /\ out.ok
    /\ usersFile.kind = "absent"
    /\ session.logged_in

\* C7: the dashboard's expiring-soon count is the number of records whose
\* warranty date d satisfies today <= d < today + 90 days
ExpiringSoonWindow ==
    (out.op = "dashboard" /\ ~out.empty) =>
        out.expiring =
            Cardinality({i \in 1..Len(StoredFrame.rows) :
                            /\ Today <= StoredFrame.rows[i]["Warranty Expiry"].v
                            /\ StoredFrame.rows[i]["Warranty Expiry"].v
                                   < Today + ExpiryWindowDays})

\* C8: on the frame load_assets returns for a file it cannot read, the Add
\* Asset and Manage pages end without an unhandled exception
NoUnhandledException ==
    out.op \in {"add_asset", "manage"} => out.result # "KeyError"

\* C9: the Manage page shows, in stored order, exactly the records that
\* have the selected status (any status for "All") and contain the search
\* text, ignoring case, in the text of their field values joined by single
\* spaces; an empty search text with "All" shows every stored record
FilterSemantics ==
    (out.op = "manage" /\ out.result = "shown") =>
        /\ out.rows =
               SelectSeq(StoredFrame.rows,
                         LAMBDA row :
                             /\ StrContains(row_text(row), lower(out.search))
                             /\ \/ out.status_filter = "All"
                                \/ row["Status"] = StrCell(out.status_filter))
        /\ (out.search = "" /\ out.status_filter = "All") => out.rows = StoredFrame.rows

\* a search text and a status were given and some, not all, records are shown
FilterKeepsSome ==
    /\ out.op = "manage"
    /\ out.search # ""
    /\ out.status_filter # "All"
    /\ Len(out.rows) >= 1
    /\ Len(out.rows) < Len(StoredFrame.rows)

\* the text of a record's field values put end to end
FieldsText(row) ==
    str_cat([j \in 1..Len(Columns) |-> lower(CellText(row[Columns[j]]))], "")

\* the statement of C9 as written: the search text is looked for in the
\* concatenated field values
FilterMatchesConcatenation ==
    (out.op = "manage" /\ out.result = "shown") =>
        out.rows =
            SelectSeq(StoredFrame.rows,
                      LAMBDA row :
                          /\ ContainsOf(FieldsText(row), lower(out.search))
                          /\ \/ out.status_filter = "All"
                             \/ row["Status"] = StrCell(out.status_filter))

\* C10: a successful registration leaves the stored records as they were,
\* each in its place, followed by the new record
RegisterAppends ==
    [][(out'.op = "add_asset" /\ out'.result = "saved")
          => /\ Len(assetsFile'.rows) = Len(assetsFile.rows) + 1
             /\ SubSeq(assetsFile'.rows, 1, Len(assetsFile.rows)) = assetsFile.rows]_vars

====
